---- MODULE Spec2Model ----
(***************************************************************************)
(* A model of tools/extract_chapter.py: the label indexer, the chapter     *)
(* slicer, the line cleaner, the entry extractor and the pipeline (main)   *)
(* that runs them and writes the chapter export.                           *)
(*                                                                         *)
(* A Python str is a sequence of characters; a character is a one-letter   *)
(* TLA+ string (SOH stands for the control character U+0001).  An          *)
(* Optional[str] is the empty set (None) or a singleton set.  A dict is a  *)
(* function on its key set.                                                *)
(***************************************************************************)
EXTENDS Integers, Sequences, FiniteSets, TLC

(***************************************************************************)
(* Characters                                                              *)
(***************************************************************************)

\* The grave accent U+0060, which the lexer does not accept in a string.
GRAVE == "GRAVE"

\* The printable ASCII characters in code point order, U+0020 .. U+007E.
ASCII ==
    << " ", "!", "\"", "#", "$", "%", "&", "'", "(", ")", "*", "+", ",", "-", ".", "/",
       "0", "1", "2", "3", "4", "5", "6", "7", "8", "9", ":", ";", "<", "=", ">", "?",
       "@", "A", "B", "C", "D", "E", "F", "G", "H", "I", "J", "K", "L", "M", "N", "O",
       "P", "Q", "R", "S", "T", "U", "V", "W", "X", "Y", "Z", "[", "\\", "]", "^", "_",
       GRAVE, "a", "b", "c", "d", "e", "f", "g", "h", "i", "j", "k", "l", "m", "n", "o",
       "p", "q", "r", "s", "t", "u", "v", "w", "x", "y", "z", "{", "|", "}", "~" >>

\* The control character U+0001, which is neither whitespace nor printable.
SOH == "SOH"

TAB == "\t"

NL == "\n"

\* ord(ch)
ord(ch) ==
    CASE ch = SOH -> 1
      [] ch = TAB -> 9
      [] ch = NL  -> 10
      [] OTHER    -> 31 + (CHOOSE i \in 1..Len(ASCII) : ASCII[i] = ch)

\* str.isspace() of one character, as str.strip() and the regex class \s use it
IsSpace(ch) == ch \in {" ", TAB, NL}

\* the regex class \w
IsWord(ch) ==
    LET o == ord(ch)
    IN  \/ o \in 48..57
        \/ o \in 65..90
        \/ o \in 97..122
        \/ o = 95

\* str.lower() of one character
LowerChar(ch) ==
    LET o == ord(ch)
    IN  IF o \in 65..90 THEN ASCII[o + 32 - 31] ELSE ch

(***************************************************************************)
(* Strings                                                                 *)
(***************************************************************************)

RECURSIVE lstrip(_)
\* str.lstrip()
lstrip(s) ==
    IF s # <<>> /\ IsSpace(Head(s)) THEN lstrip(Tail(s)) ELSE s

RECURSIVE rstrip(_)
\* str.rstrip()
rstrip(s) ==
    IF s # <<>> /\ IsSpace(s[Len(s)]) THEN rstrip(SubSeq(s, 1, Len(s) - 1)) ELSE s

\* str.strip()
strip(s) == rstrip(lstrip(s))

RECURSIVE lstrip_chars(_, _)
\* str.lstrip(chars)
lstrip_chars(s, chars) ==
    IF s # <<>> /\ Head(s) \in chars THEN lstrip_chars(Tail(s), chars) ELSE s

\* str.startswith(prefix)
startswith(s, prefix) ==
    /\ Len(s) >= Len(prefix)
    /\ SubSeq(s, 1, Len(prefix)) = prefix

\* s[n:]
DropPrefix(s, n) == SubSeq(s, n + 1, Len(s))

\* str.lower()
lower(s) == [i \in 1..Len(s) |-> LowerChar(s[i])]

RECURSIVE replace(_, _, _)
\* str.replace(old, new), old non-empty
replace(s, old, new) ==
    IF s = <<>> THEN <<>>
    ELSE IF startswith(s, old) THEN new \o replace(DropPrefix(s, Len(old)), old, new)
    ELSE <<Head(s)>> \o replace(Tail(s), old, new)

RECURSIVE split_first(_)
\* str.split(" ", 1)[0]: the text before the first space character
split_first(s) ==
    IF s = <<>> \/ Head(s) = " " THEN <<>> ELSE <<Head(s)>> \o split_first(Tail(s))

\* Optional values
None == {}

Some(v) == {v}

TheValue(opt) == CHOOSE v \in opt : TRUE

\* Python truthiness of an Optional[str]
Truthy(opt) == opt # None /\ opt # Some(<<>>)

\* dict.get(key)
DictGet(d, key) == IF key \in DOMAIN d THEN Some(d[key]) ELSE None

\* d[key] = value
DictSet(d, key, value) ==
    [k \in DOMAIN d \cup {key} |-> IF k = key THEN value ELSE d[k]]

EmptyDict == [k \in {} |-> 0]

(***************************************************************************)
(* Line Cleaner                                                            *)
(***************************************************************************)

kw_langen == <<"l", "a", "n", "g", "e", "n">>

kw_advchar == <<"a", "d", "v", "c", "h", "a", "r">>

\* The alternatives of VOICE_TAG_PATTERN, in the pattern's order.
VoiceTagKeywords ==
    << <<"d", "w", "a", "v", "e", "_", "e", "n", "g">>,
       <<"d", "w", "a", "v", "e", "_", "j", "p">>,
       <<"v", "o", "i", "c", "e", "d", "e", "l", "a", "y">>,
       <<"d", "w", "a", "v", "e">> >>

RECURSIVE SpanLen(_, _)
\* The length of the longest prefix of s whose characters all lie in chars.
SpanLen(s, chars) ==
    IF s # <<>> /\ Head(s) \in chars THEN 1 + SpanLen(Tail(s), chars) ELSE 0

RECURSIVE WordSpanLen(_)
\* The length of the longest prefix of s made of \w characters.
WordSpanLen(s) ==
    IF s # <<>> /\ IsWord(Head(s)) THEN 1 + WordSpanLen(Tail(s)) ELSE 0

RECURSIVE IndexOf(_, _)
\* The 1-based position of the first ch in s, or 0.
IndexOf(s, ch) ==
    IF s = <<>> THEN 0
    ELSE IF Head(s) = ch THEN 1
    ELSE LET r == IndexOf(Tail(s), ch) IN IF r = 0 THEN 0 ELSE r + 1

\* The length of the match of VOICE_TAG_PATTERN at the start of s, or 0:
\* ':' keyword ' ' [^:]* ':'
VoiceTagMatch(s) ==
    IF s = <<>> \/ Head(s) # ":" THEN 0
    ELSE LET hits == {k \in 1..Len(VoiceTagKeywords) :
                         startswith(Tail(s), VoiceTagKeywords[k] \o <<" ">>)}
         IN  IF hits = {} THEN 0
             ELSE LET k    == CHOOSE h \in hits : \A o \in hits : h <= o
                      head == 1 + Len(VoiceTagKeywords[k]) + 1
                      stop == IndexOf(DropPrefix(s, head), ":")
                  IN  IF stop = 0 THEN 0 ELSE head + stop

RECURSIVE sub_voice_tag(_)
\* VOICE_TAG_PATTERN.sub("", s)
sub_voice_tag(s) ==
    IF s = <<>> THEN <<>>
    ELSE LET n == VoiceTagMatch(s)
         IN  IF n > 0 THEN sub_voice_tag(DropPrefix(s, n))
             ELSE <<Head(s)>> \o sub_voice_tag(Tail(s))

\* The length of the match of CONTROL_CODE_PATTERN (!\w+) at the start of s, or 0.
ControlCodeMatch(s) ==
    IF Len(s) >= 2 /\ Head(s) = "!" /\ IsWord(s[2]) THEN 1 + WordSpanLen(Tail(s)) ELSE 0

RECURSIVE sub_control_code(_)
\* CONTROL_CODE_PATTERN.sub("", s)
sub_control_code(s) ==
    IF s = <<>> THEN <<>>
    ELSE LET n == ControlCodeMatch(s)
         IN  IF n > 0 THEN sub_control_code(DropPrefix(s, n))
             ELSE <<Head(s)>> \o sub_control_code(Tail(s))

RECURSIVE sub_whitespace_run(_)
\* WHITESPACE_RUN_PATTERN.sub(" ", s), the pattern being [ \t]{2,}
sub_whitespace_run(s) ==
    IF s = <<>> THEN <<>>
    ELSE LET n == SpanLen(s, {" ", TAB})
         IN  IF n >= 2 THEN <<" ">> \o sub_whitespace_run(DropPrefix(s, n))
             ELSE <<Head(s)>> \o sub_whitespace_run(Tail(s))

\* The length of the match of \s*:\s* at the start of s, or 0.
LeadingColonMatch(s) ==
    LET w == SpanLen(s, {" ", TAB, NL})
    IN  IF Len(s) > w /\ s[w + 1] = ":"
        THEN w + 1 + SpanLen(DropPrefix(s, w + 1), {" ", TAB, NL})
        ELSE 0

RECURSIVE sub_leading_colon(_, _)
\* re.sub(r"^\s*:\s*", "", s, flags=re.MULTILINE); bol: s starts a line
sub_leading_colon(s, bol) ==
    IF s = <<>> THEN <<>>
    ELSE LET n == IF bol THEN LeadingColonMatch(s) ELSE 0
         IN  IF n > 0 THEN sub_leading_colon(DropPrefix(s, n), s[n] = NL)
             ELSE <<Head(s)>> \o sub_leading_colon(Tail(s), Head(s) = NL)

RECURSIVE sub_newline_run(_)
\* re.sub(r"\n{3,}", "\n\n", s)
sub_newline_run(s) ==
    IF s = <<>> THEN <<>>
    ELSE LET n == SpanLen(s, {NL})
         IN  IF n >= 3 THEN <<NL, NL>> \o sub_newline_run(DropPrefix(s, n))
             ELSE <<Head(s)>> \o sub_newline_run(Tail(s))

\* ch == "\n" or ord(ch) >= 32
IsKept(ch) == ch = NL \/ ord(ch) >= 32

\* "".join(ch for ch in s if ch == "\n" or ord(ch) >= 32)
drop_control_chars(s) == SelectSeq(s, IsKept)

\* clean_lang_line, without the closing strip of line 144.
clean_lang_line_unstripped(raw) ==
    LET content == strip(raw)
    IN  IF ~startswith(content, kw_langen) THEN <<>>
        ELSE LET c1  == DropPrefix(content, Len(kw_langen))
                 c2  == sub_voice_tag(c1)
                 c3  == lstrip_chars(c2, {":", " "})
                 c4  == IF startswith(c3, <<"^">>) THEN DropPrefix(c3, 1) ELSE c3
                 c5  == replace(c4, <<"^">>, <<>>)
                 c6  == replace(c5, <<"@", "/">>, <<NL>>)
                 c7  == replace(c6, <<"@">>, <<NL>>)
                 c8  == replace(c7, <<"\\">>, <<>>)
                 c9  == sub_control_code(c8)
                 c10 == replace(replace(c9, <<"\\", "\"">>, <<"\"">>), <<"\"">>, <<"\"">>)
                 c11 == sub_whitespace_run(c10)
                 c12 == sub_leading_colon(c11, TRUE)
                 c13 == sub_newline_run(c12)
                 c14 == drop_control_chars(c13)
             IN  c14

\* clean_lang_line(raw)
clean_lang_line(raw) ==
    LET content == strip(raw)
    IN  IF ~startswith(content, kw_langen) THEN <<>>
        ELSE LET c1  == DropPrefix(content, Len(kw_langen))
                 c2  == sub_voice_tag(c1)
                 c3  == lstrip_chars(c2, {":", " "})
                 c4  == IF startswith(c3, <<"^">>) THEN DropPrefix(c3, 1) ELSE c3
                 c5  == replace(c4, <<"^">>, <<>>)
                 c6  == replace(c5, <<"@", "/">>, <<NL>>)
                 c7  == replace(c6, <<"@">>, <<NL>>)
                 c8  == replace(c7, <<"\\">>, <<>>)
                 c9  == sub_control_code(c8)
                 c10 == replace(replace(c9, <<"\\", "\"">>, <<"\"">>), <<"\"">>, <<"\"">>)
                 c11 == sub_whitespace_run(c10)
                 c12 == sub_leading_colon(c11, TRUE)
                 c13 == sub_newline_run(c12)
                 c14 == drop_control_chars(c13)
             IN  strip(c14)

(***************************************************************************)
(* Plan/Speaker Catalog                                                    *)
(***************************************************************************)

\* SpeakerInfo.from_dict(speaker_id, data); name and portrait are Optional
SpeakerInfo(speaker_id, name, portrait) ==
    [speaker_id |-> speaker_id, name |-> name, portrait |-> portrait]

\* ChapterPlan.from_dict(data)
ChapterPlan(chapter_id, start_label, end_label) ==
    [chapter_id |-> chapter_id, title |-> <<"T">>, episode |-> <<"1">>,
     start_label |-> start_label, end_label |-> end_label]

NoError == [kind |-> "none"]

Ok(value) == [ok |-> TRUE, value |-> value, error |-> NoError]

Raise(error) == [ok |-> FALSE, value |-> <<>>, error |-> error]

\* The positions of the chapters of plan that match key.
ChapterMatches(plan, key) ==
    {i \in 1..Len(plan) : plan[i].chapter_id = key \/ plan[i].start_label = key}

\* The last matching chapter instead of the first.
find_chapter_last_match(plan, key) ==
    LET matching == ChapterMatches(plan, key)
    IN  IF matching # {}
        THEN Ok(plan[CHOOSE i \in matching : \A j \in matching : j <= i])
        ELSE Raise([kind |-> "KeyError", what |-> "unknown_chapter", key |-> key,
                    available |-> [i \in 1..Len(plan) |-> plan[i].chapter_id]])

\* find_chapter(plan, key)
find_chapter(plan, key) ==
    LET hits == ChapterMatches(plan, key)
    IN  IF hits # {}
        THEN Ok(plan[CHOOSE i \in hits : \A j \in hits : i <= j])
        ELSE Raise([kind |-> "KeyError", what |-> "unknown_chapter", key |-> key,
                    available |-> [i \in 1..Len(plan) |-> plan[i].chapter_id]])

(***************************************************************************)
(* Label Indexer                                                           *)
(***************************************************************************)

\* stripped.startswith("*") and len(stripped) > 1
IsLabelLine(raw_line) ==
    LET stripped == strip(raw_line)
    IN  startswith(stripped, <<"*">>) /\ Len(stripped) > 1

\* stripped[1:]
LabelOf(raw_line) == DropPrefix(strip(raw_line), 1)

RECURSIVE index_labels_first_wins(_, _, _)
\* index_labels_from, were an earlier definition of a label kept.
index_labels_first_wins(script_lines, n, result) ==
    IF n > Len(script_lines) THEN result
    ELSE index_labels_first_wins(
             script_lines, n + 1,
             IF IsLabelLine(script_lines[n]) /\ LabelOf(script_lines[n]) \notin DOMAIN result
             THEN DictSet(result, LabelOf(script_lines[n]), n - 1)
             ELSE result)

RECURSIVE index_labels_from(_, _, _)
\* The loop of index_labels: result after the lines from position n on
\* (zero-based index n - 1) have been visited.
index_labels_from(script_lines, n, result) ==
    IF n > Len(script_lines) THEN result
    ELSE index_labels_from(
             script_lines, n + 1,
             IF IsLabelLine(script_lines[n])
             THEN DictSet(result, LabelOf(script_lines[n]), n - 1)
             ELSE result)

\* index_labels(script_lines)
index_labels(lines) == index_labels_from(lines, 1, EmptyDict)

(***************************************************************************)
(* Chapter Slicer                                                          *)
(***************************************************************************)

\* PySlice, were the slice to start at the start label's own line.
PySliceFromStart(lines, start, end) == SubSeq(lines, start + 1, end)

\* script_lines[start + 1 : end], start and end zero-based
PySlice(lines, start, end) == SubSeq(lines, start + 2, end)

\* slice_chapter, were a missing end label reported as the start label.
slice_chapter_wrong_role(lines, label_indices, chapter) ==
    IF chapter.start_label \notin DOMAIN label_indices
       \/ chapter.end_label \notin DOMAIN label_indices
    THEN Raise([kind |-> "KeyError", what |-> "missing_label", role |-> "start",
                label |-> chapter.start_label])
    ELSE LET start == label_indices[chapter.start_label]
             end   == label_indices[chapter.end_label]
         IN  IF start >= end
             THEN Raise([kind |-> "ValueError", what |-> "invalid_range",
                         chapter_id |-> chapter.chapter_id,
                         start_label |-> chapter.start_label,
                         end_label |-> chapter.end_label])
             ELSE Ok(PySlice(lines, start, end))

\* slice_chapter, were the range check start > end.
slice_chapter_strict_range(lines, label_indices, chapter) ==
    IF chapter.start_label \notin DOMAIN label_indices
    THEN Raise([kind |-> "KeyError", what |-> "missing_label", role |-> "start",
                label |-> chapter.start_label])
    ELSE IF chapter.end_label \notin DOMAIN label_indices
    THEN Raise([kind |-> "KeyError", what |-> "missing_label", role |-> "end",
                label |-> chapter.end_label])
    ELSE LET start == label_indices[chapter.start_label]
             end   == label_indices[chapter.end_label]
         IN  IF start > end
             THEN Raise([kind |-> "ValueError", what |-> "invalid_range",
                         chapter_id |-> chapter.chapter_id,
                         start_label |-> chapter.start_label,
                         end_label |-> chapter.end_label])
             ELSE Ok(PySlice(lines, start, end))

\* slice_chapter(script_lines, label_indices, chapter)
slice_chapter(lines, label_indices, chapter) ==
    IF chapter.start_label \notin DOMAIN label_indices
    THEN Raise([kind |-> "KeyError", what |-> "missing_label", role |-> "start",
                label |-> chapter.start_label])
    ELSE IF chapter.end_label \notin DOMAIN label_indices
    THEN Raise([kind |-> "KeyError", what |-> "missing_label", role |-> "end",
                label |-> chapter.end_label])
    ELSE LET start == label_indices[chapter.start_label]
             end   == label_indices[chapter.end_label]
         IN  IF start >= end
             THEN Raise([kind |-> "ValueError", what |-> "invalid_range",
                         chapter_id |-> chapter.chapter_id,
                         start_label |-> chapter.start_label,
                         end_label |-> chapter.end_label])
             ELSE Ok(PySlice(lines, start, end))

(***************************************************************************)
(* Entry Extractor                                                         *)
(***************************************************************************)

RECURSIVE QuotedCode(_)
\* re.search(r'"([^"]+)"', s): the group of the leftmost match, or None
QuotedCode(s) ==
    LET open == IndexOf(s, "\"")
    IN  IF open = 0 THEN None
        ELSE LET rest  == DropPrefix(s, open)
                 close == IndexOf(rest, "\"")
             IN  IF close = 0 THEN None
                 ELSE IF close = 1 THEN QuotedCode(rest)
                 ELSE Some(SubSeq(rest, 1, close - 1))

Sentinel == <<"-", "1">>

\* {cmd.lower() for cmd in (music_commands or [])}
music_keywords(music_commands) == {lower(cmd) : cmd \in music_commands}

\* entry.get(key)
EntryGet(entry, key) == IF key \in DOMAIN entry THEN Some(entry[key]) ELSE None

\* TextEntry, were every langen entry a narration entry.
TextEntryAlwaysNarration(text, current_speaker, speaker_map) ==
    [type |-> "narration", text |-> text]

\* The entry of a langen line under current_speaker (lines 185-195); a key
\* the code does not set is absent from the entry.
TextEntry(text, current_speaker, speaker_map) ==
    LET e0   == [type |-> IF Truthy(current_speaker) THEN "dialogue" ELSE "narration",
                 text |-> text]
    IN  IF ~Truthy(current_speaker) THEN e0
        ELSE LET id   == TheValue(current_speaker)
                 info == DictGet(speaker_map, id)
                 e1   == DictSet(e0, "speaker_id", id)
                 e2   == IF info # None /\ Truthy(TheValue(info).name)
                         THEN DictSet(e1, "speaker", TheValue(TheValue(info).name))
                         ELSE e1
             IN  IF info # None /\ Truthy(TheValue(info).portrait)
                 THEN DictSet(e2, "portrait", TheValue(TheValue(info).portrait))
                 ELSE e2

MusicEntry(keyword, stripped) ==
    [type |-> "music", command |-> keyword, raw |-> stripped]

\* extract_line, were current_speaker reset by a music line.
extract_line_music_resets(raw_line, current_speaker, speaker_map, music_commands) ==
    LET stripped == strip(raw_line)
        keyword  == lower(split_first(stripped))
        keep     == [emit |-> <<>>, current_speaker |-> current_speaker]
    IN  IF stripped = <<>> THEN keep
        ELSE IF startswith(stripped, <<";">>) THEN keep
        ELSE IF startswith(stripped, kw_advchar)
        THEN LET match == QuotedCode(stripped)
             IN  IF match # None
                 THEN [emit |-> <<>>,
                       current_speaker |->
                           IF TheValue(match) = Sentinel THEN None ELSE match]
                 ELSE keep
        ELSE IF keyword \in music_keywords(music_commands)
        THEN [emit |-> <<MusicEntry(keyword, stripped)>>, current_speaker |-> None]
        ELSE IF startswith(stripped, kw_langen)
        THEN LET text == clean_lang_line(stripped)
             IN  IF text = <<>> THEN keep
                 ELSE [emit |-> <<TextEntry(text, current_speaker, speaker_map)>>,
                       current_speaker |-> current_speaker]
        ELSE keep

\* extract_line, were current_speaker cleared by a speaker-change line without
\* a quoted code.
extract_line_unmatched_clears(raw_line, current_speaker, speaker_map, music_commands) ==
    LET stripped == strip(raw_line)
        keyword  == lower(split_first(stripped))
        keep     == [emit |-> <<>>, current_speaker |-> current_speaker]
    IN  IF stripped = <<>> THEN keep
        ELSE IF startswith(stripped, <<";">>) THEN keep
        ELSE IF startswith(stripped, kw_advchar)
        THEN LET match == QuotedCode(stripped)
             IN  IF match # None
                 THEN [emit |-> <<>>,
                       current_speaker |->
                           IF TheValue(match) = Sentinel THEN None ELSE match]
                 ELSE [emit |-> <<>>, current_speaker |-> None]
        ELSE IF keyword \in music_keywords(music_commands)
        THEN [emit |-> <<MusicEntry(keyword, stripped)>>,
              current_speaker |-> current_speaker]
        ELSE IF startswith(stripped, kw_langen)
        THEN LET text == clean_lang_line(stripped)
             IN  IF text = <<>> THEN keep
                 ELSE [emit |-> <<TextEntry(text, current_speaker, speaker_map)>>,
                       current_speaker |-> current_speaker]
        ELSE keep

\* extract_line, were the sentinel code kept as a speaker code.
extract_line_no_sentinel(raw_line, current_speaker, speaker_map, music_commands) ==
    LET stripped == strip(raw_line)
        keyword  == lower(split_first(stripped))
        keep     == [emit |-> <<>>, current_speaker |-> current_speaker]
    IN  IF stripped = <<>> THEN keep
        ELSE IF startswith(stripped, <<";">>) THEN keep
        ELSE IF startswith(stripped, kw_advchar)
        THEN LET match == QuotedCode(stripped)
             IN  IF match # None
                 THEN [emit |-> <<>>, current_speaker |-> match]
                 ELSE keep
        ELSE IF keyword \in music_keywords(music_commands)
        THEN [emit |-> <<MusicEntry(keyword, stripped)>>,
              current_speaker |-> current_speaker]
        ELSE IF startswith(stripped, kw_langen)
        THEN LET text == clean_lang_line(stripped)
             IN  IF text = <<>> THEN keep
                 ELSE [emit |-> <<TextEntry(text, current_speaker, speaker_map)>>,
                       current_speaker |-> current_speaker]
        ELSE keep

\* One iteration of the loop of extract_entries on raw_line: the entries it
\* appends (none or one) and current_speaker after it.
extract_line(raw_line, current_speaker, speaker_map, music_commands) ==
    LET stripped == strip(raw_line)
        keyword  == lower(split_first(stripped))
        keep     == [emit |-> <<>>, current_speaker |-> current_speaker]
    IN  IF stripped = <<>> THEN keep
        ELSE IF startswith(stripped, <<";">>) THEN keep
        ELSE IF startswith(stripped, kw_advchar)
        THEN LET match == QuotedCode(stripped)
             IN  IF match # None
                 THEN [emit |-> <<>>,
                       current_speaker |->
                           IF TheValue(match) = Sentinel THEN None ELSE match]
                 ELSE keep
        ELSE IF keyword \in music_keywords(music_commands)
        THEN [emit |-> <<MusicEntry(keyword, stripped)>>,
              current_speaker |-> current_speaker]
        ELSE IF startswith(stripped, kw_langen)
        THEN LET text == clean_lang_line(stripped)
             IN  IF text = <<>> THEN keep
                 ELSE [emit |-> <<TextEntry(text, current_speaker, speaker_map)>>,
                       current_speaker |-> current_speaker]
        ELSE keep

(***************************************************************************)
(* Export                                                                  *)
(***************************************************************************)

\* {entry.get("speaker_id") for entry in entries if entry.get("speaker_id")}
ReferencedSpeakers(entries) ==
    {TheValue(EntryGet(entries[i], "speaker_id")) :
        i \in {j \in 1..Len(entries) : Truthy(EntryGet(entries[j], "speaker_id"))}}

\* A payload that carries the whole speaker catalog.
build_payload_all_speakers(chapter, entries, speaker_map) ==
    Ok([chapter  |-> [id |-> chapter.chapter_id, title |-> chapter.title,
                      episode |-> chapter.episode,
                      start_label |-> chapter.start_label,
                      end_label |-> chapter.end_label],
        entries  |-> entries,
        speakers |-> speaker_map])

\* The payload of write_output (lines 238-254), or the KeyError of
\* speaker_map[speaker_id].
build_payload(chapter, entries, speaker_map) ==
    LET ids     == ReferencedSpeakers(entries)
        missing == ids \ DOMAIN speaker_map
    IN  IF missing # {}
        THEN Raise([kind |-> "KeyError", what |-> "speaker", ids |-> missing])
        ELSE Ok([chapter  |-> [id |-> chapter.chapter_id, title |-> chapter.title,
                               episode |-> chapter.episode,
                               start_label |-> chapter.start_label,
                               end_label |-> chapter.end_label],
                 entries  |-> entries,
                 speakers |-> [id \in ids |-> speaker_map[id]]])

(***************************************************************************)
(* Inputs of a run                                                         *)
(***************************************************************************)

\* The longest script of the label family.
MaxScript == 4

\* The longest chapter body of the content family.
MaxBody == 3

lbl_a == <<"a">>

lbl_b == <<"b">>

lbl_c == <<"c">>

id_e1 == <<"e", "1">>

id_e2 == <<"e", "2">>

id_nope == <<"n", "o">>

line_label_a == <<"*", "a">>

line_label_b == <<" ", "*", "b", TAB>>

line_star == <<"*">>

line_blank == <<" ">>

line_comment == <<";", "c">>

line_advchar_a == kw_advchar \o <<" ", "\"", "a", "\"">>

line_advchar_b == kw_advchar \o <<" ", "\"", "b", "\"">>

line_advchar_sentinel == kw_advchar \o <<" ", "\"", "-", "1", "\"">>

line_advchar_bare == kw_advchar

line_bgm == <<"B", "g", "m", " ", "t">>

line_bgm_tab == <<"b", "g", "m", TAB, "t">>

line_langen_plain == kw_langen \o <<" ", "H", "i">>

line_langen_rich ==
    kw_langen \o <<":">> \o VoiceTagKeywords[1]
        \o <<" ", "v", ":", "^", "H", "i", "@", "/", "Y", "o", "!", "s", "d">>

line_langen_empty == kw_langen \o <<":", "^", "@">>

line_other == <<"m", "o", "v", " ", "x">>

\* The lines of the label family's scripts.
LabelLines ==
    {line_label_a, line_label_b, line_star,
     line_advchar_b, line_langen_plain}

\* The lines of the content family's chapter bodies.
BodyLines ==
    {line_blank, line_comment, line_advchar_a, line_advchar_b, line_advchar_sentinel,
     line_advchar_bare, line_bgm, line_bgm_tab, line_langen_plain,
     line_langen_rich, line_langen_empty, line_other}

\* The lines of the chapter bodies that are run under MusicCustom.
CustomBodyLines ==
    {line_advchar_a, line_advchar_sentinel, line_bgm, line_langen_plain,
     line_langen_rich, line_other}

\* All sequences over S of length at most n.
SeqsUpTo(S, n) == UNION {[1..k -> S] : k \in 0..n}

\* The speaker catalogs: one that knows speaker a, and an empty one.
SpeakersA ==
    [id \in {<<"a">>} |-> SpeakerInfo(id, Some(<<"A">>), None)]

SpeakersNone == [id \in {} |-> SpeakerInfo(id, None, None)]

\* The --music-commands lists, as sets.
MusicDefault == {<<"b", "g", "m">>, <<"m", "e", "p", "l", "a", "y">>}

MusicCustom == {<<"B", "G", "M">>, kw_langen}

\* The (start_label, end_label) pairs of the label family's chapter.
LabelPairs ==
    {<<lbl_a, lbl_b>>, <<lbl_b, lbl_a>>, <<lbl_a, lbl_a>>, <<lbl_a, lbl_c>>,
     <<lbl_c, lbl_a>>}

\* The chapter catalogs of the catalog family.
Catalogs ==
    {<<>>,
     <<ChapterPlan(id_e1, lbl_a, lbl_b)>>,
     <<ChapterPlan(id_e1, lbl_a, lbl_b), ChapterPlan(id_e2, lbl_b, lbl_c)>>,
     <<ChapterPlan(id_e1, id_e2, lbl_b), ChapterPlan(id_e2, lbl_a, lbl_b)>>}

ChapterKeys == {id_e1, id_e2, lbl_a, id_nope}

\* What reading and parsing the catalog file does.
ConfigStates == {"ok", "missing", "malformed", "schema"}

NoChapter == ChapterPlan(<<>>, <<>>, <<>>)

\* An export left at the destination by an earlier run.
StaleExport ==
    [chapter  |-> [id |-> id_e1, title |-> <<"T">>, episode |-> <<"1">>,
                   start_label |-> lbl_a, end_label |-> lbl_b],
     entries  |-> <<>>,
     speakers |-> SpeakersNone]

\* One run's inputs.
Input(script, exists, config, catalog, spk, key, music, file) ==
    [script_file |-> script, script_exists |-> exists, config_state |-> config,
     plan_chapters |-> catalog, plan_speakers |-> spk, chapter_key |-> key,
     music_commands |-> music, file_before |-> file]

\* Label family: any script over LabelLines, one chapter over LabelPairs.
LabelInputs ==
    {Input(script, TRUE, "ok", <<ChapterPlan(id_e1, pair[1], pair[2])>>, SpeakersA,
           id_e1, MusicDefault, None) :
        script \in SeqsUpTo(LabelLines, MaxScript), pair \in LabelPairs}

\* Content family: *a, a chapter body, *b; the chapter is (a, b).  Any body
\* over BodyLines runs under the default music commands with a catalog that
\* knows speaker a, any body over CustomBodyLines under the custom music
\* commands with an empty catalog.
ContentInputs ==
    {Input(<<line_label_a>> \o body \o <<line_label_b>>, TRUE, "ok",
           <<ChapterPlan(id_e1, lbl_a, lbl_b)>>, SpeakersA, id_e1, MusicDefault,
           Some(StaleExport)) :
        body \in SeqsUpTo(BodyLines, MaxBody)}
    \cup
    {Input(<<line_label_a>> \o body \o <<line_label_b>>, TRUE, "ok",
           <<ChapterPlan(id_e1, lbl_a, lbl_b)>>, SpeakersNone, id_e1, MusicCustom,
           Some(StaleExport)) :
        body \in SeqsUpTo(CustomBodyLines, MaxBody)}

\* Catalog family: one script, any catalog, key and failure of the files.
CatalogInputs ==
    {Input(<<line_label_a, line_langen_plain, line_label_b>>, exists, config, catalog,
           SpeakersA, key, MusicDefault, file) :
        exists \in BOOLEAN, config \in ConfigStates, catalog \in Catalogs,
        key \in ChapterKeys, file \in {None, Some(StaleExport)}}

Inputs == LabelInputs \cup ContentInputs \cup CatalogInputs

(***************************************************************************)
(* The pipeline (main)                                                     *)
(***************************************************************************)

VARIABLES
    input,             \* the files and arguments of the run
    pc,                \* the position in main
    chapters,          \* main: chapters
    speakers,          \* main: speakers
    chapter,           \* main: chapter
    script_lines,      \* main: script_lines
    label_indices,     \* main: label_indices
    segment,           \* main: segment, extract_entries: lines
    line_no,           \* extract_entries: 1-based position of raw_line in lines
    entries,           \* extract_entries: entries, then main: entries
    entry_lines,       \* for each entry, the position in lines it came from
    current_speaker,   \* extract_entries: current_speaker
    output_dir_exists, \* whether output_dir exists
    destination_file,  \* the content of <output_dir>/<chapter_id>.json, or None
    stdout,            \* what main printed
    error,             \* the exception that ended the run, or NoError
    raw,               \* clean_lang_line called on its own: raw
    content            \* clean_lang_line called on its own: the result, or None

vars ==
    <<input, pc, chapters, speakers, chapter, script_lines, label_indices, segment,
      line_no, entries, entry_lines, current_speaker, output_dir_exists,
      destination_file, stdout, error, raw, content>>

Init ==
    /\ input \in Inputs
    /\ pc = "check_script"
    /\ chapters = <<>>
    /\ speakers = EmptyDict
    /\ chapter = NoChapter
    /\ script_lines = <<>>
    /\ label_indices = EmptyDict
    /\ segment = <<>>
    /\ line_no = 0
    /\ entries = <<>>
    /\ entry_lines = <<>>
    /\ current_speaker = None
    /\ output_dir_exists = FALSE
    /\ destination_file = input.file_before
    /\ stdout = <<>>
    /\ error = NoError
    /\ raw = <<>>
    /\ content = None

\* The run ends with the exception err.
Fail(err) ==
    /\ pc' = "error"
    /\ error' = err

\* main, lines 283-285
CheckScript ==
    /\ pc = "check_script"
    /\ IF input.script_exists
       THEN pc' = "load_plan" /\ error' = error
       ELSE Fail([kind |-> "SystemExit", what |-> "script_not_found"])
    /\ UNCHANGED <<raw, content>>
    /\ UNCHANGED <<input, chapters, speakers, chapter, script_lines, label_indices,
                   segment, line_no, entries, entry_lines, current_speaker,
                   output_dir_exists, destination_file, stdout>>

\* main, line 287: load_plan
LoadPlan ==
    /\ pc = "load_plan"
    /\ IF input.config_state = "ok"
       THEN /\ chapters' = input.plan_chapters
            /\ speakers' = input.plan_speakers
            /\ pc' = "find_chapter"
            /\ error' = error
       ELSE /\ Fail([kind |-> CASE input.config_state = "missing" -> "FileNotFoundError"
                               [] input.config_state = "malformed" -> "JSONDecodeError"
                               [] OTHER -> "KeyError",
                     what |-> "config"])
            /\ UNCHANGED <<chapters, speakers>>
    /\ UNCHANGED <<raw, content>>
    /\ UNCHANGED <<input, chapter, script_lines, label_indices, segment, line_no,
                   entries, entry_lines, current_speaker, output_dir_exists,
                   destination_file, stdout>>

\* main, line 288: find_chapter
FindChapter ==
    /\ pc = "find_chapter"
    /\ LET r == find_chapter(chapters, input.chapter_key)
       IN  IF r.ok
           THEN chapter' = r.value /\ pc' = "index_labels" /\ error' = error
           ELSE Fail(r.error) /\ chapter' = chapter
    /\ UNCHANGED <<raw, content>>
    /\ UNCHANGED <<input, chapters, speakers, script_lines, label_indices, segment,
                   line_no, entries, entry_lines, current_speaker, output_dir_exists,
                   destination_file, stdout>>

\* main, lines 290-291: read the script, index_labels
IndexLabels ==
    /\ pc = "index_labels"
    /\ script_lines' = input.script_file
    /\ label_indices' = index_labels(input.script_file)
    /\ pc' = "slice_chapter"
    /\ UNCHANGED <<raw, content>>
    /\ UNCHANGED <<input, chapters, speakers, chapter, segment, line_no, entries,
                   entry_lines, current_speaker, output_dir_exists, destination_file,
                   stdout, error>>

\* main, line 292: slice_chapter
SliceChapter ==
    /\ pc = "slice_chapter"
    /\ LET r == slice_chapter(script_lines, label_indices, chapter)
       IN  IF r.ok
           THEN segment' = r.value /\ pc' = "extract_begin" /\ error' = error
           ELSE Fail(r.error) /\ segment' = segment
    /\ UNCHANGED <<raw, content>>
    /\ UNCHANGED <<input, chapters, speakers, chapter, script_lines, label_indices,
                   line_no, entries, entry_lines, current_speaker, output_dir_exists,
                   destination_file, stdout>>

RECURSIVE speaker_left_by(_, _)
\* The speaker that the speaker-change lines of lines leave, from speaker on.
speaker_left_by(lines, speaker) ==
    IF lines = <<>> THEN speaker
    ELSE LET stripped == strip(Head(lines))
             match    == QuotedCode(stripped)
         IN  speaker_left_by(Tail(lines),
                 IF startswith(stripped, kw_advchar) /\ match # None
                 THEN IF TheValue(match) = Sentinel THEN None ELSE match
                 ELSE speaker)

\* ExtractBegin, were current_speaker what the script before the slice leaves.
ExtractBeginCarrySpeaker ==
    /\ pc = "extract_begin"
    /\ entries' = <<>>
    /\ entry_lines' = <<>>
    /\ current_speaker' =
           speaker_left_by(SubSeq(script_lines, 1,
                                  label_indices[chapter.start_label] + 1), None)
    /\ line_no' = 1
    /\ pc' = "extract_loop"
    /\ UNCHANGED <<raw, content>>
    /\ UNCHANGED <<input, chapters, speakers, chapter, script_lines, label_indices,
                   segment, output_dir_exists, destination_file, stdout, error>>

\* extract_entries, lines 154-156
ExtractBegin ==
    /\ pc = "extract_begin"
    /\ entries' = <<>>
    /\ entry_lines' = <<>>
    /\ current_speaker' = None
    /\ line_no' = 1
    /\ pc' = "extract_loop"
    /\ UNCHANGED <<raw, content>>
    /\ UNCHANGED <<input, chapters, speakers, chapter, script_lines, label_indices,
                   segment, output_dir_exists, destination_file, stdout, error>>

\* ExtractStep, were a new entry put before the earlier ones.
ExtractStepPrepend ==
    /\ pc = "extract_loop"
    /\ line_no <= Len(segment)
    /\ LET r == extract_line(segment[line_no], current_speaker, speakers,
                             input.music_commands)
       IN  /\ entries' = r.emit \o entries
           /\ entry_lines' = [i \in 1..Len(r.emit) |-> line_no] \o entry_lines
           /\ current_speaker' = r.current_speaker
    /\ line_no' = line_no + 1
    /\ UNCHANGED <<raw, content>>
    /\ UNCHANGED <<input, pc, chapters, speakers, chapter, script_lines, label_indices,
                   segment, output_dir_exists, destination_file, stdout, error>>

\* extract_entries, lines 158-197: one iteration of the loop
ExtractStep ==
    /\ pc = "extract_loop"
    /\ line_no <= Len(segment)
    /\ LET r == extract_line(segment[line_no], current_speaker, speakers,
                             input.music_commands)
       IN  /\ entries' = entries \o r.emit
           /\ entry_lines' = entry_lines \o [i \in 1..Len(r.emit) |-> line_no]
           /\ current_speaker' = r.current_speaker
    /\ line_no' = line_no + 1
    /\ UNCHANGED <<raw, content>>
    /\ UNCHANGED <<input, pc, chapters, speakers, chapter, script_lines, label_indices,
                   segment, output_dir_exists, destination_file, stdout, error>>

\* extract_entries, line 199, and main, line 294
ExtractReturn ==
    /\ pc = "extract_loop"
    /\ line_no > Len(segment)
    /\ pc' = "write_output"
    /\ UNCHANGED <<raw, content>>
    /\ UNCHANGED <<input, chapters, speakers, chapter, script_lines, label_indices,
                   segment, line_no, entries, entry_lines, current_speaker,
                   output_dir_exists, destination_file, stdout, error>>

\* WriteOutput, were the destination opened for writing before the payload
\* is built.
WriteOutputOpenFirst ==
    /\ pc = "write_output"
    /\ output_dir_exists' = TRUE
    /\ LET r == build_payload(chapter, entries, speakers)
       IN  IF r.ok
           THEN /\ destination_file' = Some(r.value)
                /\ pc' = "report"
                /\ error' = error
           ELSE /\ Fail(r.error)
                /\ destination_file' = Some([chapter |-> StaleExport.chapter,
                                             entries |-> <<>>, speakers |-> EmptyDict])
    /\ UNCHANGED <<raw, content>>
    /\ UNCHANGED <<input, chapters, speakers, chapter, script_lines, label_indices,
                   segment, line_no, entries, entry_lines, current_speaker, stdout>>

\* main, line 296: write_output (lines 235-257)
WriteOutput ==
    /\ pc = "write_output"
    /\ output_dir_exists' = TRUE
    /\ LET r == build_payload(chapter, entries, speakers)
       IN  IF r.ok
           THEN /\ destination_file' = Some(r.value)
                /\ pc' = "report"
                /\ error' = error
           ELSE /\ Fail(r.error)
                /\ destination_file' = destination_file
    /\ UNCHANGED <<raw, content>>
    /\ UNCHANGED <<input, chapters, speakers, chapter, script_lines, label_indices,
                   segment, line_no, entries, entry_lines, current_speaker, stdout>>

\* main, lines 297-301
Report ==
    /\ pc = "report"
    /\ stdout' = <<"Wrote", chapter.chapter_id>>
    /\ pc' = "done"
    /\ UNCHANGED <<raw, content>>
    /\ UNCHANGED <<input, chapters, speakers, chapter, script_lines, label_indices,
                   segment, line_no, entries, entry_lines, current_speaker,
                   output_dir_exists, destination_file, error>>

Next ==
    \/ CheckScript
    \/ LoadPlan
    \/ FindChapter
    \/ IndexLabels
    \/ SliceChapter
    \/ ExtractBegin
    \/ ExtractStep
    \/ ExtractReturn
    \/ WriteOutput
    \/ Report

Spec == Init /\ [][Next]_vars

(***************************************************************************)
(* clean_lang_line called on its own                                       *)
(***************************************************************************)

\* The most pieces a raw line has after the langen keyword.
MaxRaw == 3

\* :dwave v:
piece_voice_tag == <<":", "d", "w", "a", "v", "e", " ", "v", ":">>

\* The pieces raw lines are made of: the characters the cleaning passes look
\* for, a word character, a tab, a control character and a voice tag.
RawPieces ==
    {<<"!">>, <<"a">>, <<TAB>>, <<SOH>>, <<"\\">>, <<"^">>, <<"@">>, <<"/">>,
     <<":">>, <<" ">>, piece_voice_tag}

RECURSIVE Join(_)
\* "".join(pieces)
Join(pieces) ==
    IF pieces = <<>> THEN <<>> ELSE Head(pieces) \o Join(Tail(pieces))

\* The raw lines: langen followed by up to MaxRaw pieces, and lines of at most
\* one piece without the keyword.
RawLines ==
    {kw_langen \o Join(pieces) : pieces \in SeqsUpTo(RawPieces, MaxRaw)}
    \cup {Join(pieces) : pieces \in SeqsUpTo(RawPieces, 1)}

\* A call of clean_lang_line(raw) outside a run of main.
CleanerInit ==
    /\ raw \in RawLines
    /\ content = None
    /\ pc = "clean_lang_line"
    /\ input = Input(<<>>, FALSE, "ok", <<>>, SpeakersNone, <<>>, MusicDefault, None)
    /\ chapters = <<>>
    /\ speakers = EmptyDict
    /\ chapter = NoChapter
    /\ script_lines = <<>>
    /\ label_indices = EmptyDict
    /\ segment = <<>>
    /\ line_no = 0
    /\ entries = <<>>
    /\ entry_lines = <<>>
    /\ current_speaker = None
    /\ output_dir_exists = FALSE
    /\ destination_file = None
    /\ stdout = <<>>
    /\ error = NoError

\* clean_lang_line(raw), lines 109-144
CleanLangLine ==
    /\ pc = "clean_lang_line"
    /\ content' = Some(clean_lang_line(raw))
    /\ pc' = "returned"
    /\ UNCHANGED <<raw, input, chapters, speakers, chapter, script_lines,
                   label_indices, segment, line_no, entries, entry_lines,
                   current_speaker, output_dir_exists, destination_file, stdout,
                   error>>

CleanerNext == CleanLangLine

CleanerSpec == CleanerInit /\ [][CleanerNext]_vars

(***************************************************************************)
(* Properties                                                              *)
(***************************************************************************)

\* The largest element of a non-empty set of integers.
MaxOf(S) == CHOOSE m \in S : \A x \in S : x <= m

\* The 1-based positions of the script lines whose trimmed content starts
\* with '*' and is longer than one character.
DefinitionPositions ==
    {i \in 1..Len(script_lines) :
        LET t == strip(script_lines[i]) IN Len(t) > 1 /\ t[1] = "*"}

\* The label name a definition line defines.
DefinedName(i) == Tail(strip(script_lines[i]))

\* The 1-based positions of the lines that define label.
PositionsOf(label) == {i \in DefinitionPositions : DefinedName(i) = label}

\* slice_chapter has been called in this run.
SliceCalled ==
    \/ pc \in {"extract_begin", "extract_loop", "write_output", "report", "done"}
    \/ pc = "error" /\ error.what \in {"missing_label", "invalid_range", "speaker"}

\* slice_chapter has returned a slice in this run.
SliceReturned ==
    \/ pc \in {"extract_begin", "extract_loop", "write_output", "report", "done"}
    \/ pc = "error" /\ error.what = "speaker"

\* Both labels of the chapter are keys of the label table.
BothResolve ==
    /\ chapter.start_label \in DOMAIN label_indices
    /\ chapter.end_label \in DOMAIN label_indices

\* C1: the label table's keys are exactly the names defined by the lines
\* whose trimmed content starts with '*' and is longer than one character,
\* each key maps to the zero-based index of the last line of the script that
\* defines it, and indexing raises nothing, duplicates or not.
C1_LabelTableLastWins ==
    /\ DOMAIN label_indices = {DefinedName(i) : i \in DefinitionPositions}
    /\ \A label \in DOMAIN label_indices :
           label_indices[label] = MaxOf(PositionsOf(label)) - 1
    /\ pc = "slice_chapter" => error = NoError

\* The script defines a label twice and has been indexed.
C1_Witness ==
    /\ pc = "slice_chapter"
    /\ \E label \in DOMAIN label_indices : Cardinality(PositionsOf(label)) >= 2

\* C2: when both labels resolve to indices start < end, slice_chapter
\* returns exactly the lines at the zero-based positions start+1 .. end-1 of
\* the script, in order: end-start-1 lines, neither the line at start nor
\* the line at end among them.
C2_SliceIsOpenInterval ==
    (SliceCalled /\ BothResolve
        /\ label_indices[chapter.start_label] < label_indices[chapter.end_label])
    => LET start == label_indices[chapter.start_label]
           end   == label_indices[chapter.end_label]
       IN  /\ SliceReturned
           /\ Len(segment) = end - start - 1
           /\ \A k \in 1..Len(segment) : segment[k] = script_lines[start + 1 + k]

\* A slice of two lines or more has been returned.
C2_Witness ==
    /\ pc = "extract_begin"
    /\ Len(segment) >= 2

\* C3: slice_chapter fails with a missing-label error whenever the start
\* label or the end label is not a key of the label table; the error names
\* the missing label and its role, and no slice is returned.
C3_MissingLabelError ==
    (SliceCalled /\ ~BothResolve)
    => /\ pc = "error"
       /\ error.kind = "KeyError"
       /\ error.what = "missing_label"
       /\ IF chapter.start_label \notin DOMAIN label_indices
          THEN error.role = "start" /\ error.label = chapter.start_label
          ELSE error.role = "end" /\ error.label = chapter.end_label
       /\ segment = <<>>

\* The end label alone is missing and the run has failed on it.
C3_Witness ==
    /\ pc = "error"
    /\ error.what = "missing_label"
    /\ error.role = "end"
    /\ chapter.start_label \in DOMAIN label_indices
    /\ chapter.end_label \notin DOMAIN label_indices

\* C4: whenever both labels resolve and the start index is greater than or
\* equal to the end index, slice_chapter fails with an invalid-range error,
\* and the run has extracted no entry and written no output.
C4_InvalidRangeError ==
    (SliceCalled /\ BothResolve
        /\ label_indices[chapter.start_label] >= label_indices[chapter.end_label])
    => /\ pc = "error"
       /\ error.kind = "ValueError"
       /\ error.what = "invalid_range"
       /\ segment = <<>>
       /\ line_no = 0
       /\ entries = <<>>
       /\ ~output_dir_exists
       /\ destination_file = input.file_before

\* Both labels resolve to the same line and the run has failed on the range.
C4_Witness ==
    /\ pc = "error"
    /\ error.what = "invalid_range"
    /\ label_indices[chapter.start_label] = label_indices[chapter.end_label]

\* The positions of the lines of the slice the extractor has gone through.
Processed == 1..(line_no - 1)

\* The trimmed line starts with the speaker-change keyword.
IsSpeakerChangeLine(line) == startswith(strip(line), kw_advchar)

\* A speaker-change line whose quoted code is the sentinel "-1".
IsSentinelLine(line) ==
    IsSpeakerChangeLine(line) /\ QuotedCode(strip(line)) = Some(Sentinel)

\* A speaker-change line whose quoted code is not the sentinel.
SetsSpeaker(line) ==
    IsSpeakerChangeLine(line) /\ QuotedCode(strip(line)) \notin {None, Some(Sentinel)}

\* A speaker-change line that carries a quoted code.
CarriesCode(line) == IsSpeakerChangeLine(line) /\ QuotedCode(strip(line)) # None

\* The trimmed line starts with the language-channel keyword.
IsLanguageLine(line) == startswith(strip(line), kw_langen)

\* The lowercased text before the first space character of the trimmed line
\* is one of the configured music commands, lowercased.
IsMusicCommandLine(line) ==
    lower(split_first(strip(line))) \in {lower(cmd) : cmd \in input.music_commands}

\* The positions, in entries, of the entries that line k of the slice produced.
EntriesOf(k) == {i \in 1..Len(entries) : entry_lines[i] = k}

\* Line k of the slice follows a sentinel line with no speaker-change line of
\* a non-sentinel code in between.
AfterSentinel(k) ==
    \E j \in 1..(k - 1) :
        /\ IsSentinelLine(segment[j])
        /\ \A m \in (j + 1)..(k - 1) : ~SetsSpeaker(segment[m])

\* The speaker the speaker-change lines before line k of the slice leave:
\* the code of the last one that carries a code, None for the sentinel or
\* when there is none.
SpeakerBefore(k) ==
    LET coded == {j \in 1..(k - 1) : CarriesCode(segment[j])}
    IN  IF coded = {} THEN None
        ELSE LET code == QuotedCode(strip(segment[MaxOf(coded)]))
             IN  IF code = Some(Sentinel) THEN None ELSE code

\* The claim of C5 as stated: after a speaker-change line whose code is
\* "-1" current_speaker is none, and every language-channel line with
\* non-empty cleaned text that follows, up to the next speaker-change line
\* with a non-sentinel code, is emitted as a Narration entry.
C5_Original ==
    /\ (pc = "extract_loop" /\ line_no > 1 /\ IsSentinelLine(segment[line_no - 1]))
           => current_speaker = None
    /\ \A k \in Processed :
           (IsLanguageLine(segment[k]) /\ clean_lang_line(segment[k]) # <<>>
               /\ AfterSentinel(k))
           => /\ EntriesOf(k) # {}
              /\ \A i \in EntriesOf(k) : entries[i].type = "narration"

\* C5, amended: the same, for the language-channel lines whose first
\* space-delimited token is not a configured music command (a line that is
\* one is emitted as a Music entry, the music rule coming first).
C5_SentinelNarration ==
    /\ (pc = "extract_loop" /\ line_no > 1 /\ IsSentinelLine(segment[line_no - 1]))
           => current_speaker = None
    /\ \A k \in Processed :
           (IsLanguageLine(segment[k]) /\ clean_lang_line(segment[k]) # <<>>
               /\ ~IsMusicCommandLine(segment[k]) /\ AfterSentinel(k))
           => /\ EntriesOf(k) # {}
              /\ \A i \in EntriesOf(k) : entries[i].type = "narration"

\* A speaker was set, the sentinel cleared it, and a language-channel line
\* after it was emitted as narration.
C5_Witness ==
    \E k \in Processed :
        /\ IsLanguageLine(segment[k])
        /\ ~IsMusicCommandLine(segment[k])
        /\ \E j \in 2..(k - 1) :
               IsSentinelLine(segment[j]) /\ SetsSpeaker(segment[j - 1])
        /\ AfterSentinel(k)
        /\ \E i \in EntriesOf(k) : entries[i].type = "narration"

\* What a language-channel line k of the slice must have produced.
LanguageLineEntry(k) ==
    LET text == clean_lang_line(segment[k])
    IN  IF text = <<>> THEN EntriesOf(k) = {}
        ELSE /\ Cardinality(EntriesOf(k)) = 1
             /\ \A i \in EntriesOf(k) :
                    IF SpeakerBefore(k) # None
                    THEN /\ entries[i].type = "dialogue"
                         /\ entries[i].text = text
                         /\ EntryGet(entries[i], "speaker_id") = SpeakerBefore(k)
                    ELSE /\ entries[i].type = "narration"
                         /\ entries[i].text = text
                         /\ EntryGet(entries[i], "speaker_id") = None

\* The claim of C6 as stated: every language-channel line with non-empty
\* cleaned text emits exactly one entry, a Dialogue entry with the code of
\* the most recent speaker-change line when a speaker is set and a Narration
\* entry without speaker_id otherwise; with empty cleaned text it emits none.
C6_Original ==
    \A k \in Processed : IsLanguageLine(segment[k]) => LanguageLineEntry(k)

\* C6, amended: the same, for the language-channel lines whose first
\* space-delimited token is not a configured music command.
C6_LanguageLineEntry ==
    \A k \in Processed :
        (IsLanguageLine(segment[k]) /\ ~IsMusicCommandLine(segment[k]))
        => LanguageLineEntry(k)

\* A language-channel line was emitted as dialogue under the second of two
\* speaker codes, a speaker-change line without a code coming in between.
C6_Witness ==
    \E k \in Processed :
        /\ IsLanguageLine(segment[k])
        /\ ~IsMusicCommandLine(segment[k])
        /\ k >= 3
        /\ SetsSpeaker(segment[k - 2])
        /\ IsSpeakerChangeLine(segment[k - 1]) /\ ~CarriesCode(segment[k - 1])
        /\ \E i \in EntriesOf(k) : entries[i].type = "dialogue"

RECURSIVE first_word(_)
\* The text before the first whitespace character of s.
first_word(s) ==
    IF s = <<>> \/ IsSpace(Head(s)) THEN <<>> ELSE <<Head(s)>> \o first_word(Tail(s))

\* The trimmed line is neither blank, a comment nor a speaker change, and
\* its first whitespace-delimited token, lowercased, is a configured music
\* command.
IsMusicLine(line) ==
    LET t == strip(line)
    IN  /\ t # <<>>
        /\ ~startswith(t, <<";">>)
        /\ ~startswith(t, kw_advchar)
        /\ lower(first_word(t)) \in {lower(cmd) : cmd \in input.music_commands}

\* C7: a line that is neither blank, a comment nor a speaker change and
\* whose first whitespace-delimited token, compared case-insensitively, is a
\* configured music command appends exactly one Music entry, with that
\* token lowercased as command and the trimmed line as raw, and leaves
\* current_speaker as it was.
C7_MusicLineEmitsMusic ==
    [][(pc = "extract_loop" /\ line_no <= Len(segment) /\ IsMusicLine(segment[line_no]))
        => /\ entries' = Append(entries,
                                [type |-> "music",
                                 command |-> lower(first_word(strip(segment[line_no]))),
                                 raw |-> strip(segment[line_no])])
           /\ current_speaker' = current_speaker]_vars

\* a is a prefix of b.
IsPrefix(a, b) == Len(a) <= Len(b) /\ SubSeq(b, 1, Len(a)) = a

\* C8: every step of the extractor leaves the entries produced so far as a
\* prefix of the entries after it, adds at most one entry, and keeps the
\* source line positions of the entries strictly increasing.
C8_EntriesAppendOnly ==
    [][/\ IsPrefix(entries, entries')
       /\ Len(entries') <= Len(entries) + 1
       /\ Len(entry_lines') = Len(entries')
       /\ \A i \in 1..(Len(entry_lines') - 1) : entry_lines'[i] < entry_lines'[i + 1]]_vars

\* The extractor has finished with three entries.
C8_Witness ==
    /\ pc = "write_output"
    /\ Len(entries) >= 3

\* C9: a run that has ended with an error has left the destination file as
\* it was before the run.
C9_NoWriteOnError ==
    pc = "error" => destination_file = input.file_before

\* The run failed while building the export, an earlier export being at the
\* destination.
C9_Witness ==
    /\ pc = "error"
    /\ error.what = "speaker"
    /\ output_dir_exists
    /\ destination_file = Some(StaleExport)

\* The entries that carry a speaker_id the speaker catalog does not have.
UncataloguedEntries ==
    {i \in 1..Len(entries) :
        /\ EntryGet(entries[i], "speaker_id") # None
        /\ TheValue(EntryGet(entries[i], "speaker_id")) \notin DOMAIN speakers}

\* C10: a speaker code without a catalog entry is tolerated: its lines are
\* Dialogue entries with speaker_id and without name and portrait, and the
\* run, extraction and export writing, does not fail.
C10_MissingSpeakerTolerated ==
    UncataloguedEntries # {}
    => /\ \A i \in UncataloguedEntries :
              /\ entries[i].type = "dialogue"
              /\ EntryGet(entries[i], "speaker") = None
              /\ EntryGet(entries[i], "portrait") = None
       /\ pc # "error"

\* main has returned from write_output.
ExportWritten == pc \in {"report", "done"}

\* The speaker_id values the entries of an export carry.
SpeakerIdsOf(export) ==
    {export.entries[i].speaker_id :
        i \in {j \in 1..Len(export.entries) :
                  "speaker_id" \in DOMAIN export.entries[j]}}

\* C11: in the export write_output has written, the keys of "speakers" are
\* exactly the speaker_id values its entries carry: no referenced id is
\* missing and no speaker of the catalog that no entry refers to appears.
C11_SpeakersAreReferenced ==
    ExportWritten
    => /\ destination_file # None
       /\ DOMAIN TheValue(destination_file).speakers
              = SpeakerIdsOf(TheValue(destination_file))

\* An export of a run with the catalog {a}: it has entries, none of them of a
\* speaker, and its "speakers" is empty.
C11_Witness ==
    /\ ExportWritten
    /\ lbl_a \in DOMAIN speakers
    /\ TheValue(destination_file).entries # <<>>
    /\ DOMAIN TheValue(destination_file).speakers = {}

\* main has returned from find_chapter, or find_chapter has raised.
FindChapterCalled ==
    \/ pc \notin {"check_script", "load_plan", "find_chapter", "error"}
    \/ pc = "error" /\ error.what \notin {"script_not_found", "config"}

\* The positions of the catalog's chapters whose id or start label is the key.
MatchingChapters ==
    {i \in 1..Len(chapters) :
        \/ chapters[i].chapter_id = input.chapter_key
        \/ chapters[i].start_label = input.chapter_key}

\* C12: when some chapter of the catalog has the key as its id or its start
\* label, find_chapter returns the first such chapter in catalog order;
\* otherwise it fails with the unknown-chapter error, which lists the ids of
\* all chapters of the catalog.
C12_FindChapterFirstMatch ==
    FindChapterCalled
    => IF MatchingChapters # {}
       THEN /\ error.kind = "none" \/ error.what # "unknown_chapter"
            /\ \E i \in MatchingChapters :
                   /\ \A j \in MatchingChapters : i <= j
                   /\ chapter = chapters[i]
       ELSE /\ pc = "error"
            /\ error.kind = "KeyError"
            /\ error.what = "unknown_chapter"
            /\ error.key = input.chapter_key
            /\ Len(error.available) = Len(chapters)
            /\ \A i \in 1..Len(chapters) :
                   error.available[i] = chapters[i].chapter_id

\* The key is the start label of the first chapter and the id of the second:
\* find_chapter has returned the first.
C12_Witness ==
    /\ FindChapterCalled
    /\ Len(chapters) = 2
    /\ chapters[1].start_label = input.chapter_key
    /\ chapters[1].chapter_id # input.chapter_key
    /\ chapters[2].chapter_id = input.chapter_key
    /\ chapter = chapters[1]

\* s has a "!" immediately followed by a word character.
HasControlCode(s) ==
    \E i \in 1..(Len(s) - 1) : s[i] = "!" /\ IsWord(s[i + 1])

\* s has a character with a code point below 32 other than the newline.
HasControlChar(s) ==
    \E i \in 1..Len(s) : ord(s[i]) < 32 /\ s[i] # NL

\* C13: for every raw line clean_lang_line returns a string, and the string
\* is empty or has no "!" immediately followed by a word character, no
\* backslash, no "^", no "@" and no character with a code point below 32
\* other than the newline.
C13_CleanedTextIsClean ==
    content # None
    => LET result == TheValue(content)
       IN  /\ \A i \in 1..Len(result) : ord(result[i]) \in 1..126
           /\ \/ result = <<>>
              \/ /\ ~HasControlCode(result)
                 /\ \A i \in 1..Len(result) : result[i] \notin {"\\", "^", "@"}
                 /\ ~HasControlChar(result)

\* The extractor is about to process line line_no of the slice.
AtLine == pc = "extract_loop" /\ line_no <= Len(segment)

\* The trimmed line is empty.
IsBlankLine(line) == strip(line) = <<>>

\* The trimmed line starts with ";".
IsCommentLine(line) == startswith(strip(line), <<";">>)

\* The line is none of blank, comment, speaker change, music and language
\* channel.
IsUnrecognisedLine(line) ==
    /\ ~IsBlankLine(line)
    /\ ~IsCommentLine(line)
    /\ ~IsSpeakerChangeLine(line)
    /\ ~IsMusicCommandLine(line)
    /\ ~IsLanguageLine(line)

\* C14: a line that is not a speaker-change line (a blank, comment, music,
\* language-channel or unrecognised line) leaves current_speaker as it was,
\* and a blank, comment, speaker-change or unrecognised line emits no entry.
C14_OnlyAdvcharChangesSpeaker ==
    [][AtLine
       => /\ ~IsSpeakerChangeLine(segment[line_no])
             => current_speaker' = current_speaker
          /\ (\/ IsBlankLine(segment[line_no])
              \/ IsCommentLine(segment[line_no])
              \/ IsSpeakerChangeLine(segment[line_no])
              \/ IsUnrecognisedLine(segment[line_no]))
             => entries' = entries]_vars

\* A speaker was set, a music line and a language-channel line have been
\* processed since, and the speaker is the one that was set.
C14_Witness ==
    /\ pc = "extract_loop"
    /\ line_no = 4
    /\ SetsSpeaker(segment[1])
    /\ IsMusicCommandLine(segment[2])
    /\ IsLanguageLine(segment[3])
    /\ current_speaker = QuotedCode(strip(segment[1]))

\* Line k of the slice has no speaker-change line before it in the slice.
BeforeFirstSpeakerChange(k) ==
    \A j \in 1..(k - 1) : ~IsSpeakerChangeLine(segment[j])

\* The claim of C15 as stated: extract_entries starts with current_speaker
\* none, and every language-channel line of the slice before the slice's
\* first speaker-change line is emitted as a Narration entry.
C15_Original ==
    /\ (pc = "extract_loop" /\ line_no = 1) => current_speaker = None
    /\ \A k \in Processed :
           (IsLanguageLine(segment[k]) /\ BeforeFirstSpeakerChange(k))
           => /\ EntriesOf(k) # {}
              /\ \A i \in EntriesOf(k) : entries[i].type = "narration"

\* C15: extract_entries starts with current_speaker none, and every
\* language-channel line of the slice with non-empty cleaned text, whose
\* first space-delimited token is not a configured music command and which
\* precedes the slice's first speaker-change line, is emitted as a Narration
\* entry, whatever speaker-change lines the script has before the chapter's
\* start label.
C15_SliceStartsAsNarration ==
    /\ (pc = "extract_loop" /\ line_no = 1) => current_speaker = None
    /\ \A k \in Processed :
           (/\ IsLanguageLine(segment[k])
            /\ ~IsMusicCommandLine(segment[k])
            /\ clean_lang_line(strip(segment[k])) # <<>>
            /\ BeforeFirstSpeakerChange(k))
           => /\ EntriesOf(k) # {}
              /\ \A i \in EntriesOf(k) : entries[i].type = "narration"

\* The script sets a speaker before the chapter's start label, and the first
\* line of the slice, a language-channel line, has become a Narration entry.
C15_Witness ==
    /\ pc = "write_output"
    /\ \E j \in 1..label_indices[chapter.start_label] : SetsSpeaker(script_lines[j])
    /\ segment # <<>>
    /\ IsLanguageLine(segment[1])
    /\ entries # <<>>
    /\ entry_lines[1] = 1
    /\ entries[1].type = "narration"

\* A speaker-change line in which no quoted code is found.
IsUncodedSpeakerChange(line) == IsSpeakerChangeLine(line) /\ ~CarriesCode(line)

\* The extractor has just processed a speaker-change line without quoted code.
AfterUncoded ==
    /\ pc = "extract_loop"
    /\ line_no > 1
    /\ IsUncodedSpeakerChange(segment[line_no - 1])

\* The claim of C16 as stated: a speaker-change line without a parsable
\* quoted code raises no error and clears current_speaker to none.
C16_Original ==
    AfterUncoded => (error = NoError /\ current_speaker = None)

\* C16: a speaker-change line without a parsable quoted code raises no
\* error, emits no entry and leaves current_speaker as the lines before it
\* left it, so the language-channel lines after it are emitted as they would
\* be without it.
C16_UncodedKeepsSpeaker ==
    AfterUncoded
    => /\ error = NoError
       /\ EntriesOf(line_no - 1) = {}
       /\ current_speaker = SpeakerBefore(line_no - 1)

\* A speaker was set, and a speaker-change line without quoted code has just
\* been processed: the speaker is still set.
C16_Witness ==
    /\ AfterUncoded
    /\ SpeakerBefore(line_no - 1) # None
    /\ current_speaker # None

\* The positions of the Dialogue and Narration entries.
TextEntries == {i \in 1..Len(entries) : entries[i].type \in {"dialogue", "narration"}}

\* C17: every Dialogue and Narration entry of extract_entries has a
\* non-empty text that neither starts nor ends with whitespace, and every
\* Dialogue entry has a speaker_id that is non-empty and not the sentinel "-1".
C17_EntriesWellFormed ==
    \A i \in TextEntries :
        /\ entries[i].text # <<>>
        /\ ~IsSpace(entries[i].text[1])
        /\ ~IsSpace(entries[i].text[Len(entries[i].text)])
        /\ entries[i].type = "dialogue"
           => /\ "speaker_id" \in DOMAIN entries[i]
              /\ entries[i].speaker_id # <<>>
              /\ entries[i].speaker_id # Sentinel

\* The extractor has emitted a Narration entry and then, after a
\* speaker-change line, a Dialogue entry, the text of one of them cut out of
\* a line with a voice tag and markers.
C17_Witness ==
    /\ pc = "write_output"
    /\ \E i, j \in TextEntries :
           /\ entries[i].type = "narration"
           /\ entries[j].type = "dialogue"
           /\ entries[j].text = <<"H", "i", NL, "Y", "o">>

\* The lines of the script that define the chapter's start label.
StartLabelDefinitions ==
    {n \in 1..Len(script_lines) :
        /\ IsLabelLine(script_lines[n])
        /\ LabelOf(script_lines[n]) = chapter.start_label}

\* C18: with the label table index_labels built from the script, the slice
\* slice_chapter returns has no line that defines the chapter's start label,
\* also when the script defines that label more than once.
C18_SliceHasNoStartLabel ==
    SliceReturned
    => \A k \in 1..Len(segment) :
           ~(IsLabelLine(segment[k]) /\ LabelOf(segment[k]) = chapter.start_label)

\* The script defines the start label twice and the slice is not empty.
C18_Witness ==
    /\ SliceReturned
    /\ Cardinality(StartLabelDefinitions) >= 2
    /\ segment # <<>>

====
